---- MODULE Spec2Model ----
(***************************************************************************)
(* A model of ble/src/u_ble_data_extmod.c: the SPS channel registry, the   *)
(* correlation of the AT-side and EDM-side connection partials, the        *)
(* dispatch of completed connection events through the AT client callback  *)
(* queue, and the receive data path with its data-available event queue.   *)
(***************************************************************************)
EXTENDS Integers, Sequences, FiniteSets, TLC

(***************************************************************************)
(* Bounds of the model and program constants.                              *)
(***************************************************************************)
\* The short range instances (pointer identities); 0 stands for NULL.
Inst == {1, 2}
\* The EDM channel ids the environment uses.
Chan == {0, 1, 2}
\* The callback identities a caller may pass; 0 stands for NULL.
Callbacks == {1, 2}
\* Logical connect/disconnect events the environment produces per instance.
MaxEvents == 3
\* Cells of the heap that hold uBleDataSpsConnection_t records.
MaxRec == 2
\* Entries the AT client callback queue holds in the model.
MaxAtQueue == 2
\* U_BLE_DATA_MAX_CONNECTIONS, scaled down.
MaxConnections == 2
\* U_BLE_DATA_BUFFER_SIZE (sizeof pRxBuffer), scaled down.
BufferSize == 2
\* Bytes the environment sends on one channel entry.
MaxBytes == 3

U_SHORT_RANGE_EVENT_CONNECTED == 0
U_SHORT_RANGE_EVENT_DISCONNECTED == 1
U_BLE_DATA_DEFAULT_SEND_TIMEOUT_MS == 100
U_ERROR_COMMON_SUCCESS == 0
U_ERROR_COMMON_UNKNOWN == -1
U_ERROR_COMMON_NOT_INITIALISED == -2
U_ERROR_COMMON_INVALID_PARAMETER == -5

EventTypes == {U_SHORT_RANGE_EVENT_CONNECTED, U_SHORT_RANGE_EVENT_DISCONNECTED}
\* The longest data event: one byte more than the receive buffer holds.
MaxLen == BufferSize + 1
\* Capacity of the data event queue: 2 * U_BLE_DATA_MAX_CONNECTIONS.
DataQueueCapacity == 2 * MaxConnections

VARIABLES
    connCb,       \* pInstance->pSpsConnectionCallback, 0 when NULL
    connCbParam,  \* pInstance->pSpsConnectionCallbackParameter, 0 when NULL
    hooks,        \* per instance: the handlers and hooks registered with the transports
    pending,      \* pInstance->pPendingSpsConnectionEvent, a heap cell or 0
    heap,         \* the uBleDataSpsConnection_t cells
    atQueue,      \* records handed to uAtClientCallback, not yet run
    cur,          \* the record spsEventCallback is running the user callback for, or 0
    cbEv,         \* the arguments of the user callback in progress
    chanList,     \* gpChannelList
    atSeq,        \* environment: AT-side partials produced per instance
    edmSeq,       \* environment: EDM-side partials produced per instance
    link,         \* environment: channels the module holds connected per instance
    ctx,          \* the partial handlers in progress: what each read from the slot
    dataAvailCb,  \* pInstance->pBtDataAvailableCallback, 0 when NULL
    btDataCb,     \* pInstance->pBtDataCallback (deprecated), 0 when NULL
    dataCbParam,  \* pInstance->pBtDataCallbackParameter, 0 when NULL
    dataHook,     \* per instance: dataCallback is hooked to the EDM stream
    gBleDataEventQueue, \* the event queue handle, U_ERROR_COMMON_NOT_INITIALISED when closed
    dataQueue,    \* the bleDataEvent_t records in the event queue
    gBleDataMutex, \* the mutex of the registry: its handle, 0 when NULL
    made,         \* history: channels created by a Connected event and not yet disconnected
    staleDelivered, \* history: a record queued before a disable reached a user callback
    discarded,    \* history: a disable closed the queue while it held records
    delivered,    \* history: the logical event the user callback was last invoked for
    misdeliv,     \* history: a callback mixed two events, or repeated or skipped one
    disturbed,    \* history: an allocation failed, a partial was not hooked or a callback was cleared
    ub,           \* history: freed or uninitialised memory was read, or a cell freed twice
    last          \* the API call or handler that ran last, with its arguments and result

connVars == <<connCb, connCbParam, hooks>>
corrVars == <<pending, heap, atQueue, cur, cbEv>>
envVars == <<atSeq, edmSeq, link, ctx>>
histVars == <<delivered, misdeliv, disturbed, ub>>
dataVars == <<dataAvailCb, btDataCb, dataCbParam, dataHook, gBleDataEventQueue, dataQueue,
              staleDelivered, discarded>>
vars == <<connVars, corrVars, chanList, envVars, histVars, dataVars, gBleDataMutex, made,
         last>>

Min(a, b) == IF a < b THEN a ELSE b

\* What last holds after a step that no claim needs the details of.
NoOp ==
    [op |-> "none", inst |-> 0, ch |-> 0, arg |-> 0, param |-> 0, fail |-> 0,
     ret |-> 0, sent |-> FALSE, data |-> <<>>]

(***************************************************************************)
(* The channel registry: a singly linked list, modelled as the sequence of *)
(* its nodes from the head.                                                *)
(***************************************************************************)
\* The node createSpsChannel initialises; nPushed and nRead count the bytes
\* offered to and read from its ring buffer, and dropped tells whether a
\* push was dropped (history, not program state).
NewSpsChannel(pInstance, channel) ==
    [pInstance |-> pInstance, channel |-> channel, rx |-> <<>>,
     txTimeout |-> U_BLE_DATA_DEFAULT_SEND_TIMEOUT_MS,
     nPushed |-> 0, nRead |-> 0, dropped |-> FALSE]

\* A slip: a node is added to a registry that holds the maximum already.
createSpsChannelOffByOne(pInstance, channel, list, mem) ==
    IF list = <<>>
    THEN (IF mem THEN <<NewSpsChannel(pInstance, channel)>> ELSE <<>>)
    ELSE IF Len(list) <= MaxConnections /\ mem
         THEN Append(list, NewSpsChannel(pInstance, channel))
         ELSE list

\* mem: whether malloc returns a node.
createSpsChannel(pInstance, channel, list, mem) ==
    IF list = <<>>
    THEN (IF mem THEN <<NewSpsChannel(pInstance, channel)>> ELSE <<>>)
    ELSE IF Len(list) < MaxConnections /\ mem
         THEN Append(list, NewSpsChannel(pInstance, channel))
         ELSE list

\* A slip: the first node of the instance, whatever its channel.
getSpsChannelAnyChannel(pInstance, channel, list) ==
    LET hits == {j \in 1..Len(list) : list[j].pInstance = pInstance}
    IN  IF hits = {} THEN 0 ELSE CHOOSE j \in hits : \A h \in hits : j <= h

\* The position of the first matching node, 0 for NULL.
getSpsChannel(pInstance, channel, list) ==
    LET hits == {j \in 1..Len(list) :
                    list[j].pInstance = pInstance /\ list[j].channel = channel}
    IN  IF hits = {} THEN 0 ELSE CHOOSE j \in hits : \A h \in hits : j <= h

deleteSpsChannel(pInstance, channel, list) ==
    LET j == getSpsChannel(pInstance, channel, list)
    IN  IF j = 0 THEN list
        ELSE IF j = 1 THEN <<>>
        ELSE SubSeq(list, 1, j - 1) \o SubSeq(list, j + 1, Len(list))

\* The nodes the registry holds for one instance.
ChannelsOf(pInstance, list) == {j \in 1..Len(list) : list[j].pInstance = pInstance}

(***************************************************************************)
(* The heap of uBleDataSpsConnection_t records.  malloc is first-fit: it   *)
(* returns the lowest free cell, or NULL.  A cell keeps its bytes when it  *)
(* is freed and when malloc hands it out again, so a read of freed or      *)
(* uninitialised memory yields what the cell held last.  src is history:   *)
(* the sources that wrote the cell since it was allocated.                 *)
(***************************************************************************)
Cells == 1..MaxRec

ZeroCell ==
    [live |-> FALSE, pInstance |-> 0, connHandle |-> 0, type |-> 0, address |-> 0,
     dataChannel |-> 0, mtu |-> 0, pCallback |-> 0, pCallbackParameter |-> 0,
     src |-> {}]

FreeCells == {p \in Cells : ~heap[p].live}

\* What malloc may return: the first free cell, or 0 (NULL).
MallocChoices ==
    {0} \cup (IF FreeCells = {} THEN {}
              ELSE {CHOOSE p \in FreeCells : \A q \in FreeCells : p <= q})

Allocated(cell) == [cell EXCEPT !.live = TRUE, !.src = {}]

FreeCell(h, p) == [h EXCEPT ![p].live = FALSE]

\* History: the sources of the partial an arriving partial finds in the slot.
SlotSources(pInstance) ==
    IF pending[pInstance] = 0 THEN {"none"} ELSE heap[pending[pInstance]].src

(***************************************************************************)
(* The correlator: the two handlers that receive the partials.             *)
(***************************************************************************)
\* uAtClientCallback(atHandle, spsEventCallback, pStatus)
uAtClientCallback(queue, pStatus) == Append(queue, pStatus)

\* No handler of a partial is in progress.  A handler in progress (pc = 1)
\* has read pPendingSpsConnectionEvent into its local pStatus.
IdleHandler == [pc |-> 0, inst |-> 0, pStatus |-> 0, type |-> 0, ch |-> 0]

NoHandler == [at |-> IdleHandler, edm |-> IdleHandler]

\* atConnectionEvent from the test of the slot value it read (slot) on.
\* m: what malloc returns if it is called.
atConnectionEventWrite(slot, connHandle, pInstance, m) ==
    LET send == slot # 0
        pStatus == IF slot = 0 THEN m ELSE slot
        cell == IF send THEN heap[pStatus] ELSE Allocated(heap[pStatus])
    IN  /\ heap' = IF pStatus = 0 THEN heap
                   ELSE [heap EXCEPT ![pStatus] =
                            [cell EXCEPT !.connHandle = connHandle,
                                         !.src = @ \cup {"at"}]]
        /\ atQueue' = IF pStatus # 0 /\ send
                      THEN uAtClientCallback(atQueue, pStatus) ELSE atQueue
        /\ pending' = IF pStatus # 0 /\ ~send
                      THEN [pending EXCEPT ![pInstance] = pStatus] ELSE pending
        /\ disturbed' = (disturbed \/ pStatus = 0)
        /\ ub' = (ub \/ (send /\ ~heap[pStatus].live))

atConnectionEvent(connHandle, pInstance, m) ==
    IF connCb[pInstance] = 0
    THEN /\ UNCHANGED <<pending, heap, atQueue, ub>>
         /\ disturbed' = TRUE
    ELSE atConnectionEventWrite(pending[pInstance], connHandle, pInstance, m)

\* btEdmConnectionCallback from the test of the slot value it read (slot) on.
btEdmConnectionCallbackWrite(slot, type, channel, mtu, address, pInstance, m) ==
    LET send == slot # 0
        pStatus == IF slot = 0 THEN m ELSE slot
        cell == IF send THEN heap[pStatus] ELSE Allocated(heap[pStatus])
    IN  /\ heap' = IF pStatus = 0 THEN heap
                   ELSE [heap EXCEPT ![pStatus] =
                            [cell EXCEPT !.pInstance = pInstance,
                                         !.address = address,
                                         !.type = type,
                                         !.dataChannel = channel,
                                         !.mtu = mtu,
                                         !.pCallback = connCb[pInstance],
                                         !.pCallbackParameter = connCbParam[pInstance],
                                         !.src = @ \cup {"edm"}]]
        /\ atQueue' = IF send THEN uAtClientCallback(atQueue, pStatus) ELSE atQueue
        /\ pending' = IF send THEN pending ELSE [pending EXCEPT ![pInstance] = pStatus]
        /\ disturbed' = (disturbed \/ pStatus = 0)
        /\ ub' = (ub \/ (send /\ ~heap[pStatus].live))

btEdmConnectionCallback(type, channel, mtu, address, pInstance, m) ==
    btEdmConnectionCallbackWrite(pending[pInstance], type, channel, mtu, address,
                                 pInstance, m)

(***************************************************************************)
(* The environment: each logical event k of an instance produces one       *)
(* AT-side partial carrying connection handle k and one EDM-side partial   *)
(* carrying mtu k and address k, in either order; the partials of event    *)
(* k + 1 follow both partials of event k.  The module connects a channel   *)
(* that is not connected and disconnects one that is.  A partial reaches   *)
(* its handler only while the handler is hooked to the transport.          *)
(***************************************************************************)
AtPartial(i, m) ==
    /\ atSeq[i] < MaxEvents
    /\ atSeq[i] <= edmSeq[i]
    /\ Len(atQueue) < MaxAtQueue
    /\ atSeq' = [atSeq EXCEPT ![i] = @ + 1]
    /\ IF hooks[i].at
       THEN atConnectionEvent(atSeq[i] + 1, i, m)
       ELSE /\ UNCHANGED <<pending, heap, atQueue, ub>>
            /\ disturbed' = TRUE
    /\ last' = NoOp
    /\ UNCHANGED <<connVars, cur, cbEv, chanList, edmSeq, link, ctx, delivered, misdeliv,
                   dataVars, made,
                   gBleDataMutex>>

EdmPartial(i, type, c, m) ==
    /\ edmSeq[i] < MaxEvents
    /\ edmSeq[i] <= atSeq[i]
    /\ Len(atQueue) < MaxAtQueue
    /\ IF type = U_SHORT_RANGE_EVENT_CONNECTED THEN c \notin link[i] ELSE c \in link[i]
    /\ edmSeq' = [edmSeq EXCEPT ![i] = @ + 1]
    /\ link' = [link EXCEPT ![i] = IF type = U_SHORT_RANGE_EVENT_CONNECTED
                                   THEN @ \cup {c} ELSE @ \ {c}]
    /\ IF hooks[i].edm
       THEN btEdmConnectionCallback(type, c, edmSeq[i] + 1, edmSeq[i] + 1, i, m)
       ELSE /\ UNCHANGED <<pending, heap, atQueue, ub>>
            /\ disturbed' = TRUE
    /\ last' = NoOp
    /\ UNCHANGED <<connVars, cur, cbEv, chanList, atSeq, ctx, delivered, misdeliv,
                   dataVars, made,
                   gBleDataMutex>>

(***************************************************************************)
(* spsEventCallback, run by the AT client's callback task for the record   *)
(* at the head of its queue.  The user callback runs between the two       *)
(* steps, and the other contexts run while it does.                        *)
(***************************************************************************)
NoEv ==
    [inst |-> 0, connHandle |-> 0, address |-> 0, type |-> 0, ch |-> 0, mtu |-> 0,
     cb |-> 0, param |-> 0, present |-> FALSE]

\* pStatus->pInstance->pPendingSpsConnectionEvent = NULL, if pInstance is not NULL
ClearPending(slots, pInstance) ==
    IF pInstance \in Inst THEN [slots EXCEPT ![pInstance] = 0] ELSE slots

\* The channel is created before the callback of a Connected event.
spsCreateBeforeCallback(type, pInstance, channel, list, mem) ==
    IF type = U_SHORT_RANGE_EVENT_CONNECTED
    THEN createSpsChannel(pInstance, channel, list, mem)
    ELSE list

\* The channel is deleted after the callback of a Disconnected event.
spsDeleteAfterCallback(type, pInstance, channel, list) ==
    IF type = U_SHORT_RANGE_EVENT_DISCONNECTED
    THEN deleteSpsChannel(pInstance, channel, list)
    ELSE list

\* History: the callback is invoked with the fields of rec, which belong to
\* the logical event after the one delivered last, or do not.
CountDelivery(rec) ==
    IF /\ rec.pInstance \in Inst
       /\ rec.connHandle = rec.mtu
       /\ rec.connHandle = rec.address
       /\ rec.connHandle = delivered[rec.pInstance] + 1
    THEN /\ delivered' = [delivered EXCEPT ![rec.pInstance] = rec.connHandle]
         /\ misdeliv' = misdeliv
    ELSE /\ delivered' = delivered
         /\ misdeliv' = TRUE

\* Up to the call of the user callback; without a callback, the whole handler.
spsEventCallbackBegin(pStatus, mem) ==
    LET rec == heap[pStatus]
        created == spsCreateBeforeCallback(rec.type, rec.pInstance, rec.dataChannel,
                                           chanList, mem)
    IN  /\ ub' = (ub \/ ~rec.live \/ rec.src # {"at", "edm"})
        /\ IF rec.pCallback # 0
           THEN /\ chanList' = created
                /\ cur' = pStatus
                /\ cbEv' = [inst |-> rec.pInstance, connHandle |-> rec.connHandle,
                            address |-> rec.address, type |-> rec.type,
                            ch |-> rec.dataChannel, mtu |-> rec.mtu,
                            cb |-> rec.pCallback, param |-> rec.pCallbackParameter,
                            present |-> getSpsChannel(rec.pInstance, rec.dataChannel,
                                                      created) # 0]
                /\ CountDelivery(rec)
                /\ disturbed' = (disturbed \/ (~mem /\ Len(chanList) < MaxConnections
                                                /\ rec.type = U_SHORT_RANGE_EVENT_CONNECTED))
                /\ made' = IF rec.type = U_SHORT_RANGE_EVENT_CONNECTED /\ created # chanList
                           THEN made \cup {<<rec.pInstance, rec.dataChannel>>}
                           ELSE made
                /\ UNCHANGED <<pending, heap>>
           ELSE /\ pending' = ClearPending(pending, rec.pInstance)
                /\ heap' = FreeCell(heap, pStatus)
                /\ UNCHANGED <<chanList, cur, cbEv, delivered, misdeliv, disturbed, made>>

\* From the return of the user callback; the record's fields are read again.
spsEventCallbackEnd(pStatus) ==
    LET rec == heap[pStatus]
    IN  /\ chanList' = spsDeleteAfterCallback(rec.type, rec.pInstance, rec.dataChannel,
                                              chanList)
        /\ pending' = ClearPending(pending, rec.pInstance)
        /\ heap' = FreeCell(heap, pStatus)
        /\ ub' = (ub \/ ~rec.live)
        /\ made' = IF rec.type = U_SHORT_RANGE_EVENT_DISCONNECTED
                   THEN made \ {<<rec.pInstance, rec.dataChannel>>}
                   ELSE made
        /\ cur' = 0
        /\ cbEv' = NoEv

SpsBegin(mem) ==
    /\ cur = 0
    /\ atQueue # <<>>
    /\ atQueue' = Tail(atQueue)
    /\ spsEventCallbackBegin(Head(atQueue), mem)
    /\ last' = [NoOp EXCEPT !.op = "sps", !.arg = IF mem THEN 1 ELSE 0]
    /\ UNCHANGED <<connVars, envVars, dataVars, gBleDataMutex>>

SpsEnd ==
    /\ cur # 0
    /\ spsEventCallbackEnd(cur)
    /\ last' = NoOp
    /\ UNCHANGED <<connVars, atQueue, envVars, delivered, misdeliv, disturbed, dataVars,
                   gBleDataMutex>>

(***************************************************************************)
(* uBleDataSetCallbackConnectionStatus.  fail names the registration call  *)
(* that returns an error (0: none does): 1 and 2 the two URC handlers,     *)
(* 3 the connection status hook, 4 the EDM stream event hook.              *)
(***************************************************************************)
NoHooks == [urcC |-> FALSE, urcD |-> FALSE, at |-> FALSE, edm |-> FALSE]

AllHooks == [urcC |-> TRUE, urcD |-> TRUE, at |-> TRUE, edm |-> TRUE]

\* The hooks after the registration calls, each made only if those before it
\* succeeded; a call that fails registers nothing.
RegisterHooks(fail) ==
    [urcC |-> fail # 1, urcD |-> fail \notin {1, 2}, at |-> fail \notin {1, 2, 3},
     edm |-> fail = 0]

\* pUShortRangePrivateGetInstance: the instance of a handle, 0 (NULL) if none.
pUShortRangePrivateGetInstance(bleHandle) == IF bleHandle \in Inst THEN bleHandle ELSE 0

\* A slip: the enabling branch taken although a callback is already set.
connStatusEnableAlways(pInstance, pCallback) == pCallback # 0

\* The condition of the enabling branch, and of the disabling branch.
connStatusEnable(pInstance, pCallback) == pCallback # 0 /\ connCb[pInstance] = 0

connStatusDisable(pInstance, pCallback) == pCallback = 0 /\ connCb[pInstance] # 0

\* A slip: no clean-up after a registration call that failed.
connStatusCleanUpOnDisableOnly(enable, disable, errorCode) == disable

\* cleanUp: set when a registration call of the enabling branch failed, and by
\* the disabling branch.
connStatusCleanUp(enable, disable, errorCode) ==
    (enable /\ errorCode # U_ERROR_COMMON_SUCCESS) \/ disable

\* uShortRangeLock() succeeds: the short range module is initialised for as
\* long as the instances exist.
uBleDataSetCallbackConnectionStatus(bleHandle, pCallback, pCallbackParameter, fail) ==
    LET pInstance == pUShortRangePrivateGetInstance(bleHandle)
        enable == pInstance # 0 /\ connStatusEnable(pInstance, pCallback)
        disable == pInstance # 0 /\ connStatusDisable(pInstance, pCallback)
        errorCode == IF enable
                     THEN (IF fail = 0 THEN U_ERROR_COMMON_SUCCESS
                                       ELSE U_ERROR_COMMON_UNKNOWN)
                     ELSE IF disable THEN U_ERROR_COMMON_SUCCESS
                     ELSE U_ERROR_COMMON_INVALID_PARAMETER
        cleanUp == connStatusCleanUp(enable, disable, errorCode)
    IN  /\ connCb' = IF cleanUp THEN [connCb EXCEPT ![pInstance] = 0]
                     ELSE IF enable THEN [connCb EXCEPT ![pInstance] = pCallback]
                     ELSE connCb
        /\ connCbParam' = IF cleanUp THEN [connCbParam EXCEPT ![pInstance] = 0]
                          ELSE IF enable
                          THEN [connCbParam EXCEPT ![pInstance] = pCallbackParameter]
                          ELSE connCbParam
        /\ hooks' = IF cleanUp THEN [hooks EXCEPT ![pInstance] = NoHooks]
                    ELSE IF enable THEN [hooks EXCEPT ![pInstance] = RegisterHooks(fail)]
                    ELSE hooks
        /\ disturbed' = (disturbed \/ disable)
        /\ last' = [NoOp EXCEPT !.op = "connCb", !.inst = bleHandle, !.arg = pCallback,
                                !.param = pCallbackParameter, !.fail = fail,
                                !.ret = errorCode]

SetCallbackConnectionStatus(bleHandle, pCallback, pCallbackParameter, fail) ==
    /\ uBleDataSetCallbackConnectionStatus(bleHandle, pCallback, pCallbackParameter, fail)
    /\ UNCHANGED <<corrVars, chanList, envVars, delivered, misdeliv, ub, dataVars, made,
                   gBleDataMutex>>

(***************************************************************************)
(* The state after uBleDataPrivateInit and the creation of the instances.  *)
(***************************************************************************)
Init ==
    /\ connCb = [i \in Inst |-> 0]
    /\ connCbParam = [i \in Inst |-> 0]
    /\ hooks = [i \in Inst |-> NoHooks]
    /\ pending = [i \in Inst |-> 0]
    /\ heap = [p \in Cells |-> ZeroCell]
    /\ atQueue = <<>>
    /\ cur = 0
    /\ cbEv = NoEv
    /\ chanList = <<>>
    /\ atSeq = [i \in Inst |-> 0]
    /\ edmSeq = [i \in Inst |-> 0]
    /\ link = [i \in Inst |-> {}]
    /\ ctx = NoHandler
    /\ delivered = [i \in Inst |-> 0]
    /\ misdeliv = FALSE
    /\ disturbed = FALSE
    /\ ub = FALSE
    /\ dataAvailCb = [i \in Inst |-> 0]
    /\ btDataCb = [i \in Inst |-> 0]
    /\ dataCbParam = [i \in Inst |-> 0]
    /\ dataHook = [i \in Inst |-> FALSE]
    /\ gBleDataEventQueue = U_ERROR_COMMON_NOT_INITIALISED
    /\ dataQueue = <<>>
    /\ gBleDataMutex = 1
    /\ made = {}
    /\ staleDelivered = FALSE
    /\ discarded = FALSE
    /\ last = NoOp

(***************************************************************************)
(* The connection events of one instance: the two partials of each logical *)
(* event, the dispatch of the completed events, and the caller setting and *)
(* clearing the connection status callback.                                *)
(***************************************************************************)
Next ==
    \/ \E m \in MallocChoices : AtPartial(1, m)
    \/ \E type \in EventTypes, c \in Chan, m \in MallocChoices : EdmPartial(1, type, c, m)
    \/ \E mem \in BOOLEAN : SpsBegin(mem)
    \/ SpsEnd
    \/ \E cb \in {0, 1}, fail \in {0, 4} : SetCallbackConnectionStatus(1, cb, cb, fail)

Spec == Init /\ [][Next]_vars

(***************************************************************************)
(* Claims about the correlator, checked under Spec.                        *)
(***************************************************************************)
\* C1: as long as no allocation failed, no partial arrived unhooked and no
\* callback was cleared, every invocation of the user callback carries the
\* connection handle of the AT-side partial and the type, channel, mtu and
\* address of the EDM-side partial of the next logical event of its instance
\* (none mixed, repeated or skipped), no event is delivered before both its
\* partials arrived, and once the dispatch queue has drained every event whose
\* two partials arrived has been delivered.
C1Claim ==
    ~disturbed =>
        /\ ~misdeliv
        /\ \A i \in Inst :
              /\ delivered[i] <= Min(atSeq[i], edmSeq[i])
              /\ (atQueue = <<>> /\ cur = 0) => delivered[i] = Min(atSeq[i], edmSeq[i])

\* A second logical event is delivered with the fields of its own two partials.
C1Witness == ~disturbed /\ ~misdeliv /\ delivered[1] = 2 /\ cur # 0

\* C8: a step that hands a record to the dispatch queue is the arrival of an
\* AT-side partial that finds the slot holding a record written by the EDM side
\* only, or of an EDM-side partial that finds the slot holding a record written
\* by the AT side only; a partial that finds the slot empty or holding anything
\* else emits nothing (as long as no allocation failed, no partial arrived
\* unhooked and no callback was cleared).
C8Claim ==
    [][(~disturbed /\ Len(atQueue') > Len(atQueue)) =>
          \A i \in Inst :
             /\ atSeq'[i] # atSeq[i] => SlotSources(i) = {"edm"}
             /\ edmSeq'[i] # edmSeq[i] => SlotSources(i) = {"at"}]_vars

\* An EDM-side partial completed a record that held the AT-side partial only.
C8Witness ==
    /\ atQueue # <<>>
    /\ heap[Head(atQueue)].src = {"at", "edm"}
    /\ heap[Head(atQueue)].connHandle = heap[Head(atQueue)].mtu
    /\ atSeq[1] = 1 /\ edmSeq[1] = 1

(***************************************************************************)
(* The registry under a serial environment: both instances, the first     *)
(* partial of a logical event arriving only once the instance's callback   *)
(* is registered and the record of the previous event of any instance has  *)
(* been dispatched and released, and every record allocation succeeding.   *)
(***************************************************************************)
NoEventInFlight == \A j \in Inst : pending[j] = 0

SerialAtPartial(i, m) ==
    /\ hooks[i].at /\ hooks[i].edm
    /\ NoEventInFlight \/ SlotSources(i) = {"edm"}
    /\ AtPartial(i, m)

SerialEdmPartial(i, type, c, m) ==
    /\ hooks[i].at /\ hooks[i].edm
    /\ NoEventInFlight \/ SlotSources(i) = {"at"}
    /\ EdmPartial(i, type, c, m)

NextReg ==
    \/ \E i \in Inst : SetCallbackConnectionStatus(i, 1, 1, 0)
    \/ \E i \in Inst, m \in MallocChoices \ {0} : SerialAtPartial(i, m)
    \/ \E i \in Inst, type \in EventTypes, c \in Chan, m \in MallocChoices \ {0} :
          SerialEdmPartial(i, type, c, m)
    \/ \E mem \in BOOLEAN : SpsBegin(mem)
    \/ SpsEnd

SpecReg == Init /\ [][NextReg]_vars

(***************************************************************************)
(* Claims about the registry and the dispatch, checked under SpecReg.      *)
(***************************************************************************)
\* History of a run in which no allocation failed, no partial was lost, no
\* callback was cleared, no freed memory was read and no event was mixed.
CleanRun == ~disturbed /\ ~ub /\ ~misdeliv

\* C2: while the user callback runs for a Connected event (of a clean run),
\* the registry held the channel (instance, channel id) when the callback
\* started: find succeeded, also when the registry was already full.
C2Claim ==
    (cur # 0 /\ cbEv.type = U_SHORT_RANGE_EVENT_CONNECTED /\ CleanRun) => cbEv.present

\* A Connected event is in its callback with its channel in the registry.
C2Witness ==
    /\ cur # 0 /\ cbEv.type = U_SHORT_RANGE_EVENT_CONNECTED /\ CleanRun
    /\ getSpsChannel(cbEv.inst, cbEv.ch, chanList) # 0

\* C3: when the user callback starts for a Disconnected event of a channel
\* that a Connected event created, and for as long as it runs, find succeeds
\* for the channel; the step that completes the processing of a Disconnected
\* event leaves the registry without the channel (clean runs only).
C3Claim ==
    [][/\ (/\ cur' # 0
           /\ cbEv'.type = U_SHORT_RANGE_EVENT_DISCONNECTED
           /\ <<cbEv'.inst, cbEv'.ch>> \in made'
           /\ CleanRun')
          => getSpsChannel(cbEv'.inst, cbEv'.ch, chanList') # 0
       /\ (/\ cur # 0 /\ cur' = 0
           /\ cbEv.type = U_SHORT_RANGE_EVENT_DISCONNECTED
           /\ CleanRun)
          => getSpsChannel(cbEv.inst, cbEv.ch, chanList') = 0]_vars

\* A Disconnected event of a created channel is in its callback, the channel
\* still in the registry.
C3Witness ==
    /\ cur # 0 /\ cbEv.type = U_SHORT_RANGE_EVENT_DISCONNECTED /\ CleanRun
    /\ <<cbEv.inst, cbEv.ch>> \in made
    /\ getSpsChannel(cbEv.inst, cbEv.ch, chanList) # 0

\* The step in which spsEventCallback calls createSpsChannel.
CreateStep ==
    cur = 0 /\ cur' # 0 /\ cbEv'.type = U_SHORT_RANGE_EVENT_CONNECTED

\* C7 as stated: createSpsChannel (its allocation succeeding) adds the channel
\* whenever the registry holds fewer than U_BLE_DATA_MAX_CONNECTIONS channels
\* of that instance, and leaves the registry unchanged when it holds that many.
C7Claim ==
    [][(CreateStep /\ last'.arg = 1) =>
          LET held == Cardinality(ChannelsOf(cbEv'.inst, chanList))
          IN  /\ held < MaxConnections
                 => chanList' = Append(chanList, NewSpsChannel(cbEv'.inst, cbEv'.ch))
              /\ held = MaxConnections => chanList' = chanList]_vars

\* C7 amended: createSpsChannel adds the channel, at the tail and with an
\* empty buffer and the default send timeout, whenever the registry holds
\* fewer than U_BLE_DATA_MAX_CONNECTIONS channels of all instances together and
\* the allocation succeeds; when the registry holds that many, or when the
\* allocation fails, the registry is left exactly as it was.  The registry
\* never holds more than U_BLE_DATA_MAX_CONNECTIONS channels.
C7Global ==
    [][CreateStep =>
          /\ (Len(chanList) < MaxConnections /\ last'.arg = 1)
             => chanList' = Append(chanList, NewSpsChannel(cbEv'.inst, cbEv'.ch))
          /\ (Len(chanList) >= MaxConnections \/ last'.arg = 0)
             => chanList' = chanList
          /\ Len(chanList') <= MaxConnections]_vars

\* A create for an instance holding no channel failed on a full registry.
C7Witness ==
    /\ cur # 0 /\ cbEv.type = U_SHORT_RANGE_EVENT_CONNECTED /\ ~cbEv.present
    /\ last.op = "sps" /\ last.arg = 1
    /\ Len(chanList) = MaxConnections
    /\ ChannelsOf(cbEv.inst, chanList) = {}

(***************************************************************************)
(* The connection status API alone: calls with valid and invalid handles,  *)
(* with and without a callback, any one registration step failing.         *)
(***************************************************************************)
NextApi ==
    \E bleHandle \in Inst \cup {0}, pCallback \in Callbacks \cup {0},
       pCallbackParameter \in {0, 1}, fail \in 0..4 :
          SetCallbackConnectionStatus(bleHandle, pCallback, pCallbackParameter, fail)

SpecApi == Init /\ [][NextApi]_vars

\* C10: a call on a valid instance with a callback while none is set (its
\* registrations succeeding) stores the callback and its parameter, registers
\* the handlers and hooks and returns success; a call without a callback while
\* one is set returns success and leaves no callback, parameter, handler or
\* hook; a call with a callback while one is set, or without one while none is
\* set, returns U_ERROR_COMMON_INVALID_PARAMETER and changes none of them.
C10Theorem ==
    [][(last'.op = "connCb" /\ last'.inst \in Inst) =>
          LET i == last'.inst
              cb == last'.arg
          IN  /\ (cb # 0 /\ connCb[i] = 0 /\ last'.fail = 0)
                 => /\ last'.ret = U_ERROR_COMMON_SUCCESS
                    /\ connCb'[i] = cb
                    /\ connCbParam'[i] = last'.param
                    /\ hooks'[i] = AllHooks
              /\ (cb = 0 /\ connCb[i] # 0)
                 => /\ last'.ret = U_ERROR_COMMON_SUCCESS
                    /\ connCb'[i] = 0
                    /\ connCbParam'[i] = 0
                    /\ hooks'[i] = NoHooks
              /\ ((cb # 0 /\ connCb[i] # 0) \/ (cb = 0 /\ connCb[i] = 0))
                 => /\ last'.ret = U_ERROR_COMMON_INVALID_PARAMETER
                    /\ UNCHANGED connVars]_vars

\* A call with a callback, while another one is set, was rejected.
C10Witness ==
    /\ last.op = "connCb" /\ last.inst \in Inst
    /\ last.ret = U_ERROR_COMMON_INVALID_PARAMETER
    /\ last.arg # 0
    /\ connCb[last.inst] \notin {0, last.arg}
    /\ hooks[last.inst] = AllHooks

(***************************************************************************)
(* The receive data path: the ring buffer of a channel, the data event     *)
(* queue and its task, dataCallback and the data API.                      *)
(***************************************************************************)
ringBufferDataSize(rx) == Len(rx)

\* A slip: as many bytes as fit are added.
ringBufferAddPartial(rx, data) ==
    rx \o SubSeq(data, 1, Min(Len(data), BufferSize - Len(rx)))

\* ringBufferAdd adds all the bytes or none: dataCallback drops the whole
\* event ("dropping %d bytes", length) when it returns false.
ringBufferAdd(rx, data) ==
    IF Len(rx) + Len(data) <= BufferSize THEN rx \o data ELSE rx

\* The number of bytes ringBufferRead copies out and removes.
ringBufferRead(rx, length) == Min(length, Len(rx))

\* A full queue drops the record; a closed handle takes none.
uPortEventQueueSend(handle, queue, event) ==
    IF handle < 0 \/ Len(queue) >= DataQueueCapacity THEN queue ELSE Append(queue, event)

\* Closing the queue discards the records it holds.
uPortEventQueueClose(queue) == <<>>

\* History: the records of an instance queued when its callback is cleared.
MarkStale(queue, pInstance) ==
    [k \in 1..Len(queue) |->
        IF queue[k].pInstance = pInstance THEN [queue[k] EXCEPT !.stale = TRUE]
        ELSE queue[k]]

\* The bytes of a data event: numbered on from the bytes the channel was
\* offered before.
DataBytes(node, length) == [k \in 1..length |-> node.nPushed + k]

\* dataCallback from ringBufferAdd on (lines 379-389), with the value it read
\* for bufferWasEmtpy at line 378.
dataCallbackAdd(channel, length, pInstance, bufferWasEmpty) ==
    LET j == getSpsChannel(pInstance, channel, chanList)
        pChannel == chanList[j]
        data == DataBytes(pChannel, length)
        added == ringBufferAdd(pChannel.rx, data)
        event == [channel |-> channel, pInstance |-> pInstance, stale |-> FALSE]
    IN  /\ chanList' = [chanList EXCEPT ![j] =
                          [pChannel EXCEPT !.rx = added,
                                           !.nPushed = @ + length,
                                           !.dropped = @ \/ added # pChannel.rx \o data]]
        /\ dataQueue' = IF bufferWasEmpty
                        THEN uPortEventQueueSend(gBleDataEventQueue, dataQueue, event)
                        ELSE dataQueue
        /\ last' = [NoOp EXCEPT !.op = "data", !.inst = pInstance, !.ch = channel,
                                !.sent = bufferWasEmpty, !.data = data]

dataCallback(channel, length, pInstance) ==
    IF btDataCb[pInstance] # 0
    THEN /\ last' = [NoOp EXCEPT !.op = "data", !.inst = pInstance, !.ch = channel,
                                 !.arg = btDataCb[pInstance],
                                 !.param = dataCbParam[pInstance]]
         /\ UNCHANGED <<chanList, dataQueue>>
    ELSE IF dataAvailCb[pInstance] # 0 /\ getSpsChannel(pInstance, channel, chanList) # 0
    THEN LET pChannel == chanList[getSpsChannel(pInstance, channel, chanList)]
         IN  dataCallbackAdd(channel, length, pInstance,
                             ringBufferDataSize(pChannel.rx) = 0)
    ELSE /\ last' = [NoOp EXCEPT !.op = "data", !.inst = pInstance, !.ch = channel]
         /\ UNCHANGED <<chanList, dataQueue>>

\* The bytes offered to the channels of the registry so far.
RECURSIVE BytesOffered(_)
BytesOffered(list) ==
    IF list = <<>> THEN 0 ELSE Head(list).nPushed + BytesOffered(Tail(list))

\* The EDM stream delivers the bytes of a connected channel to the hooked
\* dataCallback.
DataEvent(i, c, length) ==
    /\ dataHook[i]
    /\ c \in link[i]
    /\ BytesOffered(chanList) + length <= MaxBytes
    /\ dataCallback(c, length, i)
    /\ UNCHANGED <<connVars, corrVars, envVars, histVars, dataAvailCb, btDataCb,
                   dataCbParam, dataHook, gBleDataEventQueue, staleDelivered,
                   discarded, made,
                   gBleDataMutex>>

\* The queue's task runs onBleDataEvent for the record at the head.
onBleDataEvent(pEvent) ==
    IF dataAvailCb[pEvent.pInstance] # 0
    THEN /\ last' = [NoOp EXCEPT !.op = "event", !.inst = pEvent.pInstance,
                                 !.ch = pEvent.channel,
                                 !.arg = dataAvailCb[pEvent.pInstance],
                                 !.param = dataCbParam[pEvent.pInstance]]
         /\ staleDelivered' = (staleDelivered \/ pEvent.stale)
    ELSE /\ last' = [NoOp EXCEPT !.op = "event", !.inst = pEvent.pInstance,
                                 !.ch = pEvent.channel]
         /\ UNCHANGED staleDelivered

DataEventTask ==
    /\ dataQueue # <<>>
    /\ dataQueue' = Tail(dataQueue)
    /\ onBleDataEvent(Head(dataQueue))
    /\ UNCHANGED <<connVars, corrVars, chanList, envVars, histVars, dataAvailCb, btDataCb,
                   dataCbParam, dataHook, gBleDataEventQueue, discarded, made,
                   gBleDataMutex>>

uBleDataReceive(bleHandle, channel, length) ==
    LET pInstance == pUShortRangePrivateGetInstance(bleHandle)
        j == IF pInstance = 0 THEN 0 ELSE getSpsChannel(pInstance, channel, chanList)
    IN  IF j # 0
        THEN LET pChannel == chanList[j]
                 n == ringBufferRead(pChannel.rx, length)
             IN  /\ chanList' = [chanList EXCEPT ![j] =
                                   [pChannel EXCEPT
                                       !.rx = SubSeq(pChannel.rx, n + 1, Len(pChannel.rx)),
                                       !.nRead = @ + n]]
                 /\ last' = [NoOp EXCEPT !.op = "recv", !.inst = bleHandle, !.ch = channel,
                                         !.arg = length, !.ret = n,
                                         !.data = SubSeq(pChannel.rx, 1, n)]
        ELSE /\ UNCHANGED chanList
             /\ last' = [NoOp EXCEPT !.op = "recv", !.inst = bleHandle, !.ch = channel,
                                     !.arg = length,
                                     !.ret = U_ERROR_COMMON_INVALID_PARAMETER]

Receive(bleHandle, channel, length) ==
    /\ uBleDataReceive(bleHandle, channel, length)
    /\ UNCHANGED <<connVars, corrVars, envVars, histVars, dataVars, made,
                   gBleDataMutex>>

\* uShortRangeEdmStreamDataEventCallbackSet: hookFail tells whether it
\* returns an error, and then it changes nothing.
dataEventCallbackSet(hooked, pInstance, set, hookFail) ==
    IF hookFail THEN hooked ELSE [hooked EXCEPT ![pInstance] = set]

\* The enabling branch opens the queue if it is not open; qOk tells whether
\* uPortEventQueueOpen returns a handle.  The result: the handle and the queue.
openQueueOnEnable(handle, queue, qOk) ==
    IF handle = U_ERROR_COMMON_NOT_INITIALISED
    THEN (IF qOk THEN <<0, <<>>>> ELSE <<U_ERROR_COMMON_NOT_INITIALISED, queue>>)
    ELSE <<handle, queue>>

\* A slip: the disabling branch leaves the queue as it is.
closeQueueOnDisableSkipped(handle, queue) == <<handle, queue>>

\* The disabling branch closes the queue if it is open.
closeQueueOnDisable(handle, queue) ==
    IF handle # U_ERROR_COMMON_NOT_INITIALISED
    THEN <<U_ERROR_COMMON_NOT_INITIALISED, uPortEventQueueClose(queue)>>
    ELSE <<handle, queue>>

uBleDataSetDataAvailableCallback(bleHandle, pCallback, pCallbackParameter, qOk, hookFail) ==
    LET pInstance == pUShortRangePrivateGetInstance(bleHandle)
        enable == pInstance # 0 /\ dataAvailCb[pInstance] = 0 /\ pCallback # 0
        disable == pInstance # 0 /\ dataAvailCb[pInstance] # 0 /\ pCallback = 0
        errorCode == IF enable \/ disable
                     THEN (IF hookFail THEN U_ERROR_COMMON_UNKNOWN
                                       ELSE U_ERROR_COMMON_SUCCESS)
                     ELSE U_ERROR_COMMON_INVALID_PARAMETER
        marked == MarkStale(dataQueue, pInstance)
        q == IF enable THEN openQueueOnEnable(gBleDataEventQueue, dataQueue, qOk)
             ELSE IF disable THEN closeQueueOnDisable(gBleDataEventQueue, marked)
             ELSE <<gBleDataEventQueue, dataQueue>>
    IN  /\ dataAvailCb' = IF enable \/ disable
                          THEN [dataAvailCb EXCEPT ![pInstance] = pCallback]
                          ELSE dataAvailCb
        /\ dataCbParam' = IF enable
                          THEN [dataCbParam EXCEPT ![pInstance] = pCallbackParameter]
                          ELSE IF disable THEN [dataCbParam EXCEPT ![pInstance] = 0]
                          ELSE dataCbParam
        /\ dataHook' = IF enable \/ disable
                       THEN dataEventCallbackSet(dataHook, pInstance, enable, hookFail)
                       ELSE dataHook
        /\ gBleDataEventQueue' = q[1]
        /\ dataQueue' = q[2]
        /\ discarded' = (discarded \/ (disable /\ dataQueue # <<>> /\ q[2] = <<>>))
        /\ last' = [NoOp EXCEPT !.op = "availCb", !.inst = bleHandle, !.arg = pCallback,
                                !.param = pCallbackParameter,
                                !.fail = IF hookFail THEN 1 ELSE 0, !.ret = errorCode]

SetDataAvailableCallback(bleHandle, pCallback, pCallbackParameter, qOk, hookFail) ==
    /\ uBleDataSetDataAvailableCallback(bleHandle, pCallback, pCallbackParameter, qOk,
                                        hookFail)
    /\ UNCHANGED <<connVars, corrVars, chanList, envVars, histVars, btDataCb,
                   staleDelivered, made,
                   gBleDataMutex>>

\* The deprecated uBleDataSetCallbackData.
uBleDataSetCallbackData(bleHandle, pCallback, pCallbackParameter, hookFail) ==
    LET pInstance == pUShortRangePrivateGetInstance(bleHandle)
        enable == pInstance # 0 /\ btDataCb[pInstance] = 0 /\ pCallback # 0
        disable == pInstance # 0 /\ btDataCb[pInstance] # 0 /\ pCallback = 0
        errorCode == IF enable \/ disable
                     THEN (IF hookFail THEN U_ERROR_COMMON_UNKNOWN
                                       ELSE U_ERROR_COMMON_SUCCESS)
                     ELSE U_ERROR_COMMON_INVALID_PARAMETER
    IN  /\ btDataCb' = IF enable \/ disable THEN [btDataCb EXCEPT ![pInstance] = pCallback]
                       ELSE btDataCb
        /\ dataCbParam' = IF enable
                          THEN [dataCbParam EXCEPT ![pInstance] = pCallbackParameter]
                          ELSE IF disable THEN [dataCbParam EXCEPT ![pInstance] = 0]
                          ELSE dataCbParam
        /\ dataHook' = IF enable \/ disable
                       THEN dataEventCallbackSet(dataHook, pInstance, enable, hookFail)
                       ELSE dataHook
        /\ last' = [NoOp EXCEPT !.op = "dataCb", !.inst = bleHandle, !.arg = pCallback,
                                !.param = pCallbackParameter,
                                !.fail = IF hookFail THEN 1 ELSE 0, !.ret = errorCode]

SetCallbackData(bleHandle, pCallback, pCallbackParameter, hookFail) ==
    /\ uBleDataSetCallbackData(bleHandle, pCallback, pCallbackParameter, hookFail)
    /\ UNCHANGED <<connVars, corrVars, chanList, envVars, histVars, dataAvailCb,
                   gBleDataEventQueue, dataQueue, staleDelivered, discarded, made,
                   gBleDataMutex>>

(***************************************************************************)
(* The data path of one instance.  It starts in the state SpecReg reaches  *)
(* when instance 1 has registered its connection callback and the          *)
(* Connected events of its channels 0 and 1 have been dispatched           *)
(* (InitData is a reachable state of SpecReg); from there the data events  *)
(* of the two channels, the reads of the caller, the data API and the      *)
(* queue's task run in any order.                                          *)
(***************************************************************************)
InitData ==
    /\ connCb = [i \in Inst |-> IF i = 1 THEN 1 ELSE 0]
    /\ connCbParam = [i \in Inst |-> IF i = 1 THEN 1 ELSE 0]
    /\ hooks = [i \in Inst |-> IF i = 1 THEN AllHooks ELSE NoHooks]
    /\ pending = [i \in Inst |-> 0]
    /\ heap = [p \in Cells |->
                 IF p = 1
                 THEN [ZeroCell EXCEPT !.pInstance = 1, !.connHandle = 2, !.address = 2,
                                       !.dataChannel = 1, !.mtu = 2, !.pCallback = 1,
                                       !.pCallbackParameter = 1, !.src = {"at", "edm"}]
                 ELSE ZeroCell]
    /\ atQueue = <<>>
    /\ cur = 0
    /\ cbEv = NoEv
    /\ chanList = <<NewSpsChannel(1, 0), NewSpsChannel(1, 1)>>
    /\ atSeq = [i \in Inst |-> IF i = 1 THEN 2 ELSE 0]
    /\ edmSeq = [i \in Inst |-> IF i = 1 THEN 2 ELSE 0]
    /\ link = [i \in Inst |-> IF i = 1 THEN {0, 1} ELSE {}]
    /\ ctx = NoHandler
    /\ delivered = [i \in Inst |-> IF i = 1 THEN 2 ELSE 0]
    /\ misdeliv = FALSE
    /\ disturbed = FALSE
    /\ ub = FALSE
    /\ dataAvailCb = [i \in Inst |-> 0]
    /\ btDataCb = [i \in Inst |-> 0]
    /\ dataCbParam = [i \in Inst |-> 0]
    /\ dataHook = [i \in Inst |-> FALSE]
    /\ gBleDataEventQueue = U_ERROR_COMMON_NOT_INITIALISED
    /\ dataQueue = <<>>
    /\ gBleDataMutex = 1
    /\ made = {<<1, 0>>, <<1, 1>>}
    /\ staleDelivered = FALSE
    /\ discarded = FALSE
    /\ last = NoOp

NextData ==
    \/ \E pCallback \in {0, 1}, qOk \in BOOLEAN, hookFail \in BOOLEAN :
          SetDataAvailableCallback(1, pCallback, pCallback, qOk, hookFail)
    \/ \E pCallback \in {0, 1} : SetCallbackData(1, pCallback, pCallback, FALSE)
    \/ \E c \in {0, 1}, length \in 1..MaxLen : DataEvent(1, c, length)
    \/ \E c \in {0, 1}, length \in {0, 1, MaxLen} : Receive(1, c, length)
    \/ Receive(0, 0, 1)
    \/ DataEventTask

SpecData == InitData /\ [][NextData]_vars

(***************************************************************************)
(* Claims about the data path, checked under SpecData.                     *)
(***************************************************************************)
\* The node of channel (pInstance, channel), found without getSpsChannel; 0
\* if the registry holds none.
NodeOf(pInstance, channel, list) ==
    LET hits == {j \in 1..Len(list) :
                    list[j].pInstance = pInstance /\ list[j].channel = channel}
    IN  IF hits = {} THEN 0 ELSE CHOOSE j \in hits : \A h \in hits : j <= h

\* C4: a dataCallback step of an instance with a data-available callback, the
\* queue open and not full, adds a record to the queue exactly when it turns
\* the receive buffer of the channel from empty to non-empty.
C4Claim ==
    [][(/\ last'.op = "data"
        /\ dataAvailCb[last'.inst] # 0
        /\ gBleDataEventQueue >= 0
        /\ Len(dataQueue) < DataQueueCapacity)
       => LET j == NodeOf(last'.inst, last'.ch, chanList)
          IN  (dataQueue' # dataQueue)
              <=> (j # 0 /\ chanList[j].rx = <<>> /\ chanList'[j].rx # <<>>)]_vars

\* A push into a non-empty buffer was taken and queued nothing.
C4Witness ==
    /\ last.op = "data" /\ ~last.sent /\ last.data # <<>>
    /\ LET j == NodeOf(last.inst, last.ch, chanList)
       IN  j # 0 /\ ~chanList[j].dropped /\ Len(chanList[j].rx) > Len(last.data)

\* C5: a read of a channel returns min(length, bytes buffered) bytes, never an
\* error, and so 0 on an empty buffer; it returns the oldest bytes in the order
\* they were pushed and removes exactly those, leaving the other channels
\* alone; as long as no push to the channel was dropped, the bytes read so far
\* followed by the bytes returned are a prefix of the bytes pushed.
C5Theorem ==
    [][(last'.op = "recv" /\ NodeOf(last'.inst, last'.ch, chanList) # 0) =>
          LET j == NodeOf(last'.inst, last'.ch, chanList)
              node == chanList[j]
              n == Min(last'.arg, Len(node.rx))
          IN  /\ last'.ret = n
              /\ last'.data = SubSeq(node.rx, 1, n)
              /\ Len(chanList') = Len(chanList)
              /\ chanList'[j].rx = SubSeq(node.rx, n + 1, Len(node.rx))
              /\ \A k \in 1..Len(chanList) : k # j => chanList'[k] = chanList[k]
              /\ ~node.dropped =>
                    /\ last'.data = [k \in 1..n |-> node.nRead + k]
                    /\ node.nRead + n <= node.nPushed]_vars

\* A read took the first byte of two pushed bytes and left the second.
C5Witness ==
    /\ last.op = "recv" /\ last.ret = 1 /\ last.arg = 1 /\ last.data = <<1>>
    /\ LET j == NodeOf(last.inst, last.ch, chanList)
       IN  j # 0 /\ chanList[j].rx = <<2>> /\ ~chanList[j].dropped

\* A dataCallback step that offers bytes to the ring buffer of a channel.
PushStep == last'.op = "data" /\ last'.data # <<>>

C9Theorem ==
    /\ ~staleDelivered
    /\ \A k \in 1..Len(dataQueue) : ~dataQueue[k].stale

\* After a disable discarded queued records and a later enable, the user
\* callback is invoked for a record.
C9Witness ==
    discarded /\ last.op = "event" /\ last.arg # 0

(***************************************************************************)
(* The send path: uBleDataSend and uBleDataSetSendTimeout, called while    *)
(* instance 1 holds channels 0 and 1 and while one further logical event   *)
(* of the instance (a disconnect, or a connect the full registry refuses)  *)
(* is received and dispatched.                                             *)
(***************************************************************************)
\* What the read of pChannel->txTimeout through a NULL pChannel may yield:
\* a fault that stops the program (Fault), or whatever word lies at that
\* offset from address 0 on a target without memory protection.
Fault == -1

NullReads == {Fault, 0, 7}

\* uShortRangeEdmStreamWrite: the number of bytes written, or an error.
uShortRangeEdmStreamWrite(length, wrOk) == IF wrOk THEN length ELSE U_ERROR_COMMON_UNKNOWN

\* nullRead: the outcome of the read through pChannel if pChannel is NULL.
uBleDataSend(bleHandle, channel, length, nullRead, wrOk) ==
    LET pInstance == pUShortRangePrivateGetInstance(bleHandle)
        j == IF pInstance = 0 THEN 0 ELSE getSpsChannel(pInstance, channel, chanList)
        txTimeout == IF j # 0 THEN chanList[j].txTimeout ELSE nullRead
    IN  /\ ub' = (ub \/ (pInstance # 0 /\ j = 0))
        /\ last' =
              IF pInstance = 0
              THEN [NoOp EXCEPT !.op = "send", !.inst = bleHandle, !.ch = channel,
                                !.arg = length, !.ret = U_ERROR_COMMON_INVALID_PARAMETER]
              ELSE IF txTimeout = Fault
              THEN [NoOp EXCEPT !.op = "abort", !.inst = bleHandle, !.ch = channel,
                                !.arg = length, !.fail = 1]
              ELSE [NoOp EXCEPT !.op = "send", !.inst = bleHandle, !.ch = channel,
                                !.arg = length, !.param = txTimeout,
                                !.fail = IF j = 0 THEN 1 ELSE 0,
                                !.ret = uShortRangeEdmStreamWrite(length, wrOk),
                                !.sent = TRUE]

Send(bleHandle, channel, length, nullRead, wrOk) ==
    /\ uBleDataSend(bleHandle, channel, length, nullRead, wrOk)
    /\ UNCHANGED <<connVars, corrVars, chanList, envVars, delivered, misdeliv, disturbed,
                   dataVars, made,
                   gBleDataMutex>>

uBleDataSetSendTimeout(bleHandle, channel, timeout) ==
    LET pInstance == pUShortRangePrivateGetInstance(bleHandle)
        j == IF pInstance = 0 THEN 0 ELSE getSpsChannel(pInstance, channel, chanList)
    IN  /\ chanList' = IF j # 0 THEN [chanList EXCEPT ![j].txTimeout = timeout]
                       ELSE chanList
        /\ last' = [NoOp EXCEPT !.op = "timeout", !.inst = bleHandle, !.ch = channel,
                                !.arg = timeout,
                                !.ret = IF j # 0 THEN U_ERROR_COMMON_SUCCESS
                                        ELSE U_ERROR_COMMON_UNKNOWN]

SetSendTimeout(bleHandle, channel, timeout) ==
    /\ uBleDataSetSendTimeout(bleHandle, channel, timeout)
    /\ UNCHANGED <<connVars, corrVars, envVars, histVars, dataVars, made,
                   gBleDataMutex>>

\* The program runs until a fault stops it.
Running == last.op # "abort"

NextSend ==
    \/ /\ Running
       /\ \E bleHandle \in {0, 1}, channel \in Chan, nullRead \in NullReads,
             wrOk \in BOOLEAN : Send(bleHandle, channel, 1, nullRead, wrOk)
    \/ /\ Running
       /\ \E bleHandle \in {0, 1}, channel \in Chan, timeout \in {1, 2} :
             SetSendTimeout(bleHandle, channel, timeout)
    \/ /\ Running
       /\ \E m \in MallocChoices \ {0} : SerialAtPartial(1, m)
    \/ /\ Running
       /\ \E type \in EventTypes, c \in Chan, m \in MallocChoices \ {0} :
             SerialEdmPartial(1, type, c, m)
    \/ /\ Running
       /\ \E mem \in BOOLEAN : SpsBegin(mem)
    \/ /\ Running
       /\ SpsEnd

SpecSend == InitData /\ [][NextSend]_vars

\* C11: a call of uBleDataSend on a valid instance for a channel the registry
\* does not hold returns U_ERROR_COMMON_INVALID_PARAMETER, reads through no
\* missing channel, writes nothing to the transport and does not stop the
\* program.
C11Claim ==
    [][(/\ last'.op \in {"send", "abort"}
        /\ last'.inst \in Inst
        /\ NodeOf(last'.inst, last'.ch, chanList) = 0)
       => /\ last'.op = "send"
          /\ last'.ret = U_ERROR_COMMON_INVALID_PARAMETER
          /\ last'.fail = 0
          /\ ~last'.sent]_vars

\* uBleDataSend was called for a channel that was never connected.
C11Witness ==
    /\ last.op \in {"send", "abort"} /\ last.inst \in Inst /\ last.fail = 1
    /\ last.ch \notin link[last.inst]
    /\ NodeOf(last.inst, last.ch, chanList) = 0

(***************************************************************************)
(* The life cycle of the connection status callback of one instance: the   *)
(* caller enables and disables it (any registration step failing) while    *)
(* the logical events go on.  The partials arrive serially: the first      *)
(* partial of an event only once the slot is empty, the second one while   *)
(* the slot holds the partial of the other source alone.  A partial that   *)
(* arrives while its handler is not hooked is lost, and an allocation of a *)
(* record may fail.                                                        *)
(***************************************************************************)
LifeAtPartial(i, m) ==
    /\ NoEventInFlight \/ SlotSources(i) = {"edm"}
    /\ AtPartial(i, m)

LifeEdmPartial(i, type, c, m) ==
    /\ NoEventInFlight \/ SlotSources(i) = {"at"}
    /\ EdmPartial(i, type, c, m)

NextLife ==
    \/ \E pCallback \in {0, 1}, fail \in 0..4 :
          SetCallbackConnectionStatus(1, pCallback, pCallback, fail)
    \/ \E m \in MallocChoices : LifeAtPartial(1, m)
    \/ \E type \in EventTypes, c \in Chan, m \in MallocChoices :
          LifeEdmPartial(1, type, c, m)
    \/ \E mem \in BOOLEAN : SpsBegin(mem)
    \/ SpsEnd

SpecLife == Init /\ [][NextLife]_vars

\* The registry holds at most one channel per instance and channel id.
UniqueChannels(list) ==
    \A j, k \in 1..Len(list) :
        (list[j].pInstance = list[k].pInstance /\ list[j].channel = list[k].channel)
            => j = k

\* C12: the registry never holds two channels with the same instance and
\* channel id, whatever Connected and Disconnected events were processed.
C12Claim == UniqueChannels(chanList)

\* Two Connected events were processed and the registry holds their two
\* channels, one entry each.
C12Witness ==
    /\ ~ub /\ ~misdeliv /\ cur = 0
    /\ Len(chanList) = 2
    /\ chanList[1].pInstance = chanList[2].pInstance
    /\ chanList[1].channel # chanList[2].channel

(***************************************************************************)
(* Claims about deleteSpsChannel, checked under SpecSend.                  *)
(***************************************************************************)
\* The step in which spsEventCallback calls deleteSpsChannel.
DeleteStep ==
    cur # 0 /\ cur' = 0 /\ cbEv.type = U_SHORT_RANGE_EVENT_DISCONNECTED

\* C13: the step that deletes channel (instance, channel id) after the
\* callback of its Disconnected event removes that entry and no other: every
\* other entry of the registry, before or after the deleted one, is still
\* there, in the same order, with its buffered bytes and send timeout.
C13Claim ==
    [][DeleteStep =>
          LET j == NodeOf(cbEv.inst, cbEv.ch, chanList)
          IN  /\ j = 0 => chanList' = chanList
              /\ j # 0 => chanList' = SubSeq(chanList, 1, j - 1)
                                        \o SubSeq(chanList, j + 1, Len(chanList))]_vars

\* Channel 1, the second entry, was deleted by its Disconnected event and
\* channel 0 is still in the registry.
C13Witness ==
    /\ cur = 0 /\ atQueue = <<>> /\ edmSeq[1] = 3 /\ atSeq[1] = 3
    /\ link[1] = {0}
    /\ Len(chanList) = 1 /\ chanList[1].channel = 0 /\ chanList[1].txTimeout = 2

(***************************************************************************)
(* Claims about the life cycle of the connection status callback, checked  *)
(* under SpecLife.                                                         *)
(***************************************************************************)
\* C14: a call of uBleDataSetCallbackConnectionStatus that disables the
\* callback leaves the instance without handlers and hooks and without a
\* pending record: a partial stored before the disable is discarded, so that
\* the first partial after a later enable finds the slot empty.
C14Claim ==
    [][(/\ last'.op = "connCb" /\ last'.inst \in Inst
        /\ last'.arg = 0 /\ last'.ret = U_ERROR_COMMON_SUCCESS
        /\ connCb[last'.inst] # 0)
       => /\ hooks'[last'.inst] = NoHooks
          /\ pending'[last'.inst] = 0]_vars

\* The callback was disabled after an event had been delivered, while no
\* partial was pending.
C14Witness ==
    /\ last.op = "connCb" /\ last.inst = 1 /\ last.arg = 0
    /\ last.ret = U_ERROR_COMMON_SUCCESS
    /\ hooks[1] = NoHooks /\ connCb[1] = 0 /\ pending[1] = 0
    /\ delivered[1] = 1 /\ cur = 0

(***************************************************************************)
(* Claims about a failing enable, checked under SpecApi.                   *)
(***************************************************************************)
\* C15: a call of uBleDataSetCallbackConnectionStatus that takes the enabling
\* branch and in which one of the four registration calls fails returns the
\* error of that call, and leaves the instance with no handler and no hook
\* registered and with no callback and no parameter stored, whichever call
\* failed; the other instance is not touched; and an enabling call on an
\* instance without a callback, its registrations succeeding, is accepted.
C15Theorem ==
    [][(/\ last'.op = "connCb" /\ last'.inst \in Inst
        /\ last'.arg # 0 /\ connCb[last'.inst] = 0)
       => LET i == last'.inst
          IN  /\ last'.fail # 0
                 => /\ last'.ret = U_ERROR_COMMON_UNKNOWN
                    /\ ~hooks'[i].urcC /\ ~hooks'[i].urcD
                    /\ ~hooks'[i].at /\ ~hooks'[i].edm
                    /\ connCb'[i] = 0
                    /\ connCbParam'[i] = 0
              /\ last'.fail = 0
                 => /\ last'.ret = U_ERROR_COMMON_SUCCESS
                    /\ connCb'[i] = last'.arg
              /\ \A k \in Inst \ {i} :
                    /\ hooks'[k] = hooks[k]
                    /\ connCb'[k] = connCb[k]
                    /\ connCbParam'[k] = connCbParam[k]]_vars

\* The enable of instance 1 failed at its last registration call, the EDM
\* stream event hook, while instance 2 has its callback enabled.
C15Witness ==
    /\ last.op = "connCb" /\ last.inst = 1 /\ last.arg # 0 /\ last.fail = 4
    /\ last.ret = U_ERROR_COMMON_UNKNOWN
    /\ connCb[1] = 0 /\ hooks[1] = NoHooks
    /\ connCb[2] # 0 /\ hooks[2] = AllHooks

(***************************************************************************)
(* Claims about the records handed to the dispatch, checked under Spec.    *)
(***************************************************************************)
\* The number of entries of the dispatch queue that are record p.
Occurrences(queue, p) == Cardinality({k \in 1..Len(queue) : queue[k] = p})

\* Record p has been handed to the dispatch and not been released yet.
InDispatch(p) == Occurrences(atQueue, p) > 0 \/ cur = p

\* C16: a record that has been handed to the dispatch is not the pending slot
\* of any instance; the arrival of a partial neither changes such a record nor
\* hands it to the dispatch again; and the dispatch queue never holds a record
\* twice, so that each is consumed once.
C16Claim ==
    [][\A p \in Cells :
          InDispatch(p) =>
             /\ \A i \in Inst : pending[i] # p
             /\ (atSeq' # atSeq \/ edmSeq' # edmSeq)
                => /\ heap'[p] = heap[p]
                   /\ Occurrences(atQueue', p) = Occurrences(atQueue, p)
             /\ Occurrences(atQueue, p) <= 1]_vars

\* The callback of the first event runs; no further partial has arrived.
C16Witness ==
    /\ cur # 0 /\ atQueue = <<>> /\ ~disturbed
    /\ delivered[1] = 1 /\ atSeq[1] = 1 /\ edmSeq[1] = 1
    /\ heap[cur].live

(***************************************************************************)
(* The data-available callbacks of both instances: each instance enables   *)
(* and disables its callback (the event queue opening whenever it is       *)
(* asked to) while the channels of instance 1 receive data, the caller     *)
(* reads it and the queue's task runs.                                     *)
(***************************************************************************)
NextAvail ==
    \/ \E i \in Inst, pCallback \in {0, 1}, hookFail \in BOOLEAN :
          SetDataAvailableCallback(i, pCallback, pCallback, TRUE, hookFail)
    \/ \E c \in {0, 1}, length \in 1..MaxLen : DataEvent(1, c, length)
    \/ \E c \in {0, 1} : Receive(1, c, MaxLen)
    \/ DataEventTask

SpecAvail == InitData /\ [][NextAvail]_vars

\* C17: while an instance has a data-available callback that an enable
\* registered with success (the callback stored and dataCallback hooked), the
\* event queue is open; so clearing the callback of one instance leaves the
\* queue open while another instance has one.
C17Claim ==
    (\E i \in Inst : dataAvailCb[i] # 0 /\ dataHook[i])
        => gBleDataEventQueue # U_ERROR_COMMON_NOT_INITIALISED

\* Both instances have their callbacks enabled and the open queue holds a
\* record of instance 1.
C17Witness ==
    /\ \A i \in Inst : dataAvailCb[i] # 0 /\ dataHook[i]
    /\ gBleDataEventQueue # U_ERROR_COMMON_NOT_INITIALISED
    /\ dataQueue # <<>>

(***************************************************************************)
(* The data path during a disconnect: instance 1 holds channels 0 and 1    *)
(* and has its data-available callback enabled or not; data arrives on     *)
(* the connected channels, the queue's task delivers the records, and one  *)
(* further logical event of the instance is received and dispatched.       *)
(***************************************************************************)
NextDisc ==
    \/ \E pCallback \in {0, 1} : SetDataAvailableCallback(1, pCallback, pCallback, TRUE, FALSE)
    \/ \E c \in {0, 1}, length \in 1..MaxLen : DataEvent(1, c, length)
    \/ \E c \in {0, 1} : Receive(1, c, MaxLen)
    \/ DataEventTask
    \/ \E m \in MallocChoices \ {0} : SerialAtPartial(1, m)
    \/ \E type \in EventTypes, c \in Chan, m \in MallocChoices \ {0} :
          SerialEdmPartial(1, type, c, m)
    \/ \E mem \in BOOLEAN : SpsBegin(mem)
    \/ SpsEnd

SpecDisc == InitData /\ [][NextDisc]_vars

\* C18: whenever the queue's task invokes the user data-available callback
\* for a channel, the registry holds that channel, also when the channel has
\* been disconnected since the record was queued: the channel is not removed
\* before the records that name it have been delivered.
C18Claim ==
    [][(/\ last'.op = "event" /\ last'.arg # 0
        /\ last'.ch \notin link[last'.inst])
       => NodeOf(last'.inst, last'.ch, chanList) # 0]_vars

\* The user data-available callback was invoked for a channel while the
\* callback of that channel's Disconnected event was running, the channel
\* still in the registry.
C18Witness ==
    /\ last.op = "event" /\ last.arg # 0
    /\ cur # 0 /\ cbEv.type = U_SHORT_RANGE_EVENT_DISCONNECTED
    /\ cbEv.inst = last.inst /\ cbEv.ch = last.ch
    /\ NodeOf(last.inst, last.ch, chanList) # 0

(***************************************************************************)
(* The two partial handlers on their own execution contexts.  Neither      *)
(* handler takes a lock, so the read of pPendingSpsConnectionEvent and     *)
(* the store or send that follows it are two steps, and the other handler  *)
(* may run in between.  The first partial of a logical event arrives once  *)
(* the previous event has been dispatched; the second one at any time.     *)
(***************************************************************************)
\* No partial of an earlier event is being handled or dispatched.
Settled == ctx = NoHandler /\ atQueue = <<>> /\ cur = 0

\* atConnectionEvent up to the read of the slot (lines 340-342).
AtEnter(i) ==
    /\ ctx.at.pc = 0
    /\ hooks[i].at /\ connCb[i] # 0
    /\ atSeq[i] < MaxEvents
    /\ atSeq[i] <= edmSeq[i]
    /\ atSeq[i] = edmSeq[i] => Settled
    /\ atSeq' = [atSeq EXCEPT ![i] = @ + 1]
    /\ ctx' = [ctx EXCEPT !.at = [IdleHandler EXCEPT !.pc = 1, !.inst = i,
                                                     !.pStatus = pending[i]]]
    /\ last' = NoOp
    /\ UNCHANGED <<connVars, corrVars, chanList, edmSeq, link, histVars, dataVars, made,
                   gBleDataMutex>>

\* atConnectionEvent from the test of its local pStatus on (lines 344-361).
AtLeave(m) ==
    /\ ctx.at.pc = 1
    /\ atConnectionEventWrite(ctx.at.pStatus, atSeq[ctx.at.inst], ctx.at.inst, m)
    /\ ctx' = [ctx EXCEPT !.at = IdleHandler]
    /\ last' = NoOp
    /\ UNCHANGED <<connVars, cur, cbEv, chanList, atSeq, edmSeq, link, delivered,
                   misdeliv, dataVars, made,
                   gBleDataMutex>>

\* btEdmConnectionCallback up to the read of the slot (lines 303-307).
EdmEnter(i, type, c) ==
    /\ ctx.edm.pc = 0
    /\ hooks[i].edm
    /\ edmSeq[i] < MaxEvents
    /\ edmSeq[i] <= atSeq[i]
    /\ edmSeq[i] = atSeq[i] => Settled
    /\ IF type = U_SHORT_RANGE_EVENT_CONNECTED THEN c \notin link[i] ELSE c \in link[i]
    /\ edmSeq' = [edmSeq EXCEPT ![i] = @ + 1]
    /\ link' = [link EXCEPT ![i] = IF type = U_SHORT_RANGE_EVENT_CONNECTED
                                   THEN @ \cup {c} ELSE @ \ {c}]
    /\ ctx' = [ctx EXCEPT !.edm = [pc |-> 1, inst |-> i, pStatus |-> pending[i],
                                   type |-> type, ch |-> c]]
    /\ last' = NoOp
    /\ UNCHANGED <<connVars, corrVars, chanList, atSeq, histVars, dataVars, made,
                   gBleDataMutex>>

\* btEdmConnectionCallback from the test of its local pStatus on (lines 310-330).
EdmLeave(m) ==
    /\ ctx.edm.pc = 1
    /\ btEdmConnectionCallbackWrite(ctx.edm.pStatus, ctx.edm.type, ctx.edm.ch,
                                    edmSeq[ctx.edm.inst], edmSeq[ctx.edm.inst],
                                    ctx.edm.inst, m)
    /\ ctx' = [ctx EXCEPT !.edm = IdleHandler]
    /\ last' = NoOp
    /\ UNCHANGED <<connVars, cur, cbEv, chanList, atSeq, edmSeq, link, delivered,
                   misdeliv, dataVars, made,
                   gBleDataMutex>>

NextRace ==
    \/ SetCallbackConnectionStatus(1, 1, 1, 0)
    \/ AtEnter(1)
    \/ \E m \in MallocChoices \ {0} : AtLeave(m)
    \/ \E type \in EventTypes, c \in Chan : EdmEnter(1, type, c)
    \/ \E m \in MallocChoices \ {0} : EdmLeave(m)
    \/ \E mem \in BOOLEAN : SpsBegin(mem)
    \/ SpsEnd

SpecRace == Init /\ [][NextRace]_vars

\* C19: the two handlers of the partials of one logical event, running on
\* different contexts, never both find the slot empty (both would store and
\* none would hand the event to the dispatch) and never both find it full.
C19Claim ==
    ~(/\ ctx.at.pc = 1 /\ ctx.edm.pc = 1
      /\ ctx.at.inst = ctx.edm.inst
      /\ atSeq[ctx.at.inst] = edmSeq[ctx.at.inst]
      /\ (ctx.at.pStatus = 0) = (ctx.edm.pStatus = 0))

\* The EDM-side handler of the first event runs after the AT-side handler has
\* stored its record, and finds it in the slot.
C19Witness ==
    /\ ctx.at.pc = 0 /\ ctx.edm.pc = 1
    /\ atSeq[1] = 1 /\ edmSeq[1] = 1
    /\ ctx.edm.pStatus # 0
    /\ heap[ctx.edm.pStatus].src = {"at"}

(***************************************************************************)
(* Allocation failures: the serial environment of instance 1 with its      *)
(* callback enabled, in which any allocation of a record may fail.         *)
(***************************************************************************)
NextAlloc ==
    \/ SetCallbackConnectionStatus(1, 1, 1, 0)
    \/ \E m \in MallocChoices : SerialAtPartial(1, m)
    \/ \E type \in EventTypes, c \in Chan, m \in MallocChoices :
          SerialEdmPartial(1, type, c, m)
    \/ \E mem \in BOOLEAN : SpsBegin(mem)
    \/ SpsEnd

SpecAlloc == Init /\ [][NextAlloc]_vars

\* C20: a partial that finds the slot empty and whose record cannot be
\* allocated hands nothing to the dispatch and leaves the slot empty; and
\* whatever allocations failed before, every event that reaches the user
\* callback carries the connection handle, the mtu and the address of one and
\* the same logical event.
C20Claim ==
    [][/\ (/\ atSeq' # atSeq \/ edmSeq' # edmSeq
           /\ pending[1] = 0 /\ pending'[1] = 0)
          => atQueue' = atQueue /\ heap' = heap
       /\ (cur = 0 /\ cur' # 0)
          => /\ cbEv'.connHandle = cbEv'.mtu
             /\ cbEv'.connHandle = cbEv'.address]_vars

\* The record of the AT-side partial of the first event could not be
\* allocated: the slot is empty and nothing was handed to the dispatch.
C20Witness ==
    /\ hooks[1] = AllHooks /\ disturbed
    /\ atSeq[1] = 1 /\ edmSeq[1] = 0
    /\ pending[1] = 0 /\ atQueue = <<>> /\ cur = 0
    /\ \A p \in Cells : ~heap[p].live

(***************************************************************************)
(* Module deinitialisation: uBleDataPrivateDeinit called at any point of   *)
(* the data path and of a disconnect of instance 1, and the module         *)
(* initialised again afterwards.                                           *)
(***************************************************************************)
\* deleteAllSpsChannels frees every node and sets the head to NULL.
deleteAllSpsChannels(list) == <<>>

uBleDataPrivateDeinit ==
    /\ gBleDataEventQueue' = U_ERROR_COMMON_NOT_INITIALISED
    /\ dataQueue' = IF gBleDataEventQueue # U_ERROR_COMMON_NOT_INITIALISED
                    THEN uPortEventQueueClose(dataQueue) ELSE dataQueue
    /\ chanList' = deleteAllSpsChannels(chanList)
    /\ gBleDataMutex' = 0
    /\ discarded' = (discarded \/ dataQueue # <<>>)
    /\ made' = {}
    /\ last' = [NoOp EXCEPT !.op = "deinit", !.arg = Len(dataQueue),
                            !.param = Len(chanList)]
    /\ UNCHANGED <<connVars, corrVars, envVars, histVars, dataAvailCb, btDataCb,
                   dataCbParam, dataHook, staleDelivered>>

\* uBleDataPrivateInit; mutexOk: whether uPortMutexCreate succeeds.
uBleDataPrivateInit(mutexOk) ==
    /\ gBleDataMutex' = IF mutexOk THEN 1 ELSE 0
    /\ last' = [NoOp EXCEPT !.op = "init"]
    /\ UNCHANGED <<connVars, corrVars, chanList, envVars, histVars, dataVars, made>>

\* The module is initialised: its mutex exists.
Initialised == gBleDataMutex # 0

NextDeinit ==
    \/ Initialised /\ NextDisc
    \/ Initialised /\ uBleDataPrivateDeinit
    \/ ~Initialised /\ \E mutexOk \in BOOLEAN : uBleDataPrivateInit(mutexOk)

SpecDeinit == InitData /\ [][NextDeinit]_vars

\* C21: uBleDataPrivateDeinit, from whatever state it is called in, leaves the
\* event queue closed and empty, the registry without a channel, no instance
\* with a pending record, and the mutex released.
C21Claim ==
    [][last'.op = "deinit" =>
          /\ gBleDataEventQueue' = U_ERROR_COMMON_NOT_INITIALISED
          /\ dataQueue' = <<>>
          /\ chanList' = <<>>
          /\ gBleDataMutex' = 0
          /\ \A i \in Inst : pending'[i] = 0]_vars

\* The module was deinitialised while the registry held two channels and the
\* queue held a record, no partial pending.
C21Witness ==
    /\ last.op = "deinit" /\ last.arg > 0 /\ last.param = 2
    /\ gBleDataEventQueue = U_ERROR_COMMON_NOT_INITIALISED
    /\ dataQueue = <<>> /\ chanList = <<>> /\ gBleDataMutex = 0
    /\ \A i \in Inst : pending[i] = 0


\* C22: when uBleDataSetDataAvailableCallback is called to enable the callback
\* of instance 1 and the installation of the data hook fails, the call returns
\* the error and the callback, its parameter and the event queue handle are
\* what they were before the call.
C22Claim ==
    [][(last'.op = "availCb" /\ last'.inst = 1 /\ last'.fail = 1
          /\ last'.arg # 0 /\ dataAvailCb[1] = 0) =>
          /\ last'.ret = U_ERROR_COMMON_UNKNOWN
          /\ dataAvailCb'[1] = dataAvailCb[1]
          /\ dataCbParam'[1] = dataCbParam[1]
          /\ gBleDataEventQueue' = gBleDataEventQueue]_vars

\* An enabling call whose hook installation failed has returned the error.
C22Witness ==
    /\ last.op = "availCb" /\ last.inst = 1 /\ last.fail = 1 /\ last.arg # 0
    /\ last.ret = U_ERROR_COMMON_UNKNOWN
    /\ dataHook[1] = FALSE


(***************************************************************************)
(* The producer and the consumer of a receive buffer in their own          *)
(* contexts: dataCallback runs in the task of the EDM stream and           *)
(* uBleDataReceive in the caller's, and no lock spans the read of the      *)
(* buffer size and the add in dataCallback.  The callback of instance 1 is *)
(* enabled once and stays.                                                 *)
(***************************************************************************)
\* dataCallback up to the read of the buffer size (lines 371-378).
DataEnter(i, c, length) ==
    /\ ctx.edm.pc = 0
    /\ dataHook[i]
    /\ c \in link[i]
    /\ BytesOffered(chanList) + length <= MaxBytes
    /\ btDataCb[i] = 0 /\ dataAvailCb[i] # 0
    /\ getSpsChannel(i, c, chanList) # 0
    /\ ctx' = [ctx EXCEPT !.edm =
                 [pc |-> 2, inst |-> i, ch |-> c, length |-> length,
                  bufferWasEmpty |->
                      ringBufferDataSize(chanList[getSpsChannel(i, c, chanList)].rx) = 0]]
    /\ last' = [NoOp EXCEPT !.op = "dataRead", !.inst = i, !.ch = c]
    /\ UNCHANGED <<connVars, corrVars, chanList, atSeq, edmSeq, link, histVars, dataVars,
                   made, gBleDataMutex>>

\* dataCallback from ringBufferAdd on (lines 379-389).
DataLeave ==
    /\ ctx.edm.pc = 2
    /\ dataCallbackAdd(ctx.edm.ch, ctx.edm.length, ctx.edm.inst, ctx.edm.bufferWasEmpty)
    /\ ctx' = [ctx EXCEPT !.edm = IdleHandler]
    /\ UNCHANGED <<connVars, corrVars, atSeq, edmSeq, link, histVars, dataAvailCb, btDataCb,
                   dataCbParam, dataHook, gBleDataEventQueue, staleDelivered,
                   discarded, made, gBleDataMutex>>

NextWake ==
    \/ SetDataAvailableCallback(1, 1, 1, TRUE, FALSE)
    \/ \E c \in {0, 1}, length \in 1..MaxLen : DataEnter(1, c, length)
    \/ DataLeave
    \/ \E c \in {0, 1}, length \in {1, MaxLen} : Receive(1, c, length)
    \/ DataEventTask

SpecWake == InitData /\ [][NextWake]_vars

\* A record for channel (pInstance, channel) is in the queue.
Queued(pInstance, channel, queue) ==
    \E k \in 1..Len(queue) : queue[k].pInstance = pInstance /\ queue[k].channel = channel

\* C23: with the data-available callback registered and the queue open and
\* not full, every step that turns the receive buffer of a channel of
\* instance 1 from empty to non-empty leaves a record for that channel in the
\* queue, whatever the consumer did while the producer was running.
C23Claim ==
    [][\A c \in {0, 1} :
          (/\ dataAvailCb[1] # 0
           /\ gBleDataEventQueue >= 0 /\ Len(dataQueue) < DataQueueCapacity
           /\ chanList[NodeOf(1, c, chanList)].rx = <<>>
           /\ chanList'[NodeOf(1, c, chanList')].rx # <<>>)
          => Queued(1, c, dataQueue')]_vars

\* The consumer drained the buffer while the producer was between its read
\* of the size and its add, and the producer has added its bytes since.
C23Witness ==
    /\ last.op = "data" /\ last.sent = FALSE /\ last.data # <<>>
    /\ chanList[NodeOf(1, last.ch, chanList)].rx = last.data
    /\ ctx.edm.pc = 0


(***************************************************************************)
(* A user callback that calls the data API.  The connection callback of    *)
(* instance 1 runs for the disconnect of one of its two channels and,      *)
(* before it returns, calls uBleDataSend or uBleDataReceive for the        *)
(* channel of its event; in other contexts the data-available callback is  *)
(* enabled and disabled and the module is deinitialised.  Each of          *)
(* createSpsChannel, getSpsChannel and deleteSpsChannel locks gBleDataMutex *)
(* at its entry and unlocks it before its only exit, and each API function *)
(* unlocks the short range lock before its only return, so the callback    *)
(* runs between two steps with neither held by its own context.            *)
(***************************************************************************)
\* The user callback in progress calls uBleDataSend for its channel.
CbSend(nullRead, wrOk) ==
    /\ cur # 0
    /\ Send(cbEv.inst, cbEv.ch, 1, nullRead, wrOk)

\* The user callback in progress calls uBleDataReceive for its channel.
CbReceive ==
    /\ cur # 0
    /\ Receive(cbEv.inst, cbEv.ch, MaxLen)

NextHold ==
    \/ /\ Running /\ Initialised
       /\ \E pCallback \in {0, 1} : SetDataAvailableCallback(1, pCallback, pCallback, TRUE, FALSE)
    \/ /\ Running /\ Initialised
       /\ \E c \in {0, 1} : DataEvent(1, c, 1)
    \/ /\ Running /\ Initialised
       /\ DataEventTask
    \/ /\ Running /\ Initialised
       /\ \E m \in MallocChoices \ {0} : SerialAtPartial(1, m)
    \/ /\ Running /\ Initialised
       /\ \E c \in Chan, m \in MallocChoices \ {0} :
             SerialEdmPartial(1, U_SHORT_RANGE_EVENT_DISCONNECTED, c, m)
    \/ /\ Running /\ Initialised
       /\ SpsBegin(TRUE)
    \/ /\ Running
       /\ \E nullRead \in NullReads, wrOk \in BOOLEAN : CbSend(nullRead, wrOk)
    \/ /\ Running
       /\ CbReceive
    \/ /\ Running
       /\ SpsEnd
    \/ /\ Running /\ Initialised
       /\ uBleDataPrivateDeinit

SpecHold == InitData /\ [][NextHold]_vars

\* C24: a call of uBleDataSend or uBleDataReceive made by the user callback
\* while it runs returns to the callback, whatever the other contexts
\* (disabling the data-available callback, deinitialising the module) did
\* since the callback was invoked.
C24Claim ==
    [][(cur # 0 /\ last'.op \in {"send", "recv", "abort"}) => last'.op # "abort"]_vars

\* The user callback called uBleDataSend for its channel after the module
\* was deinitialised under it.
C24Witness ==
    /\ cur # 0 /\ last.op \in {"send", "abort"}
    /\ ~Initialised
    /\ cbEv.type = U_SHORT_RANGE_EVENT_DISCONNECTED


(***************************************************************************)
(* Two instances side by side, both using channel id 0: the events of both *)
(* arrive serially, both may enable their data-available callback once     *)
(* their connection callback is set, and data arrives and is read on the   *)
(* channel of both while it is connected.                                  *)
(***************************************************************************)
\* Logical events per instance: a connect and a disconnect.
MaxIsoEvents == 2

NextIso ==
    \/ \E i \in Inst : SetCallbackConnectionStatus(i, 1, 1, 0)
    \/ \E i \in Inst, m \in MallocChoices \ {0} :
          atSeq[i] < MaxIsoEvents /\ SerialAtPartial(i, m)
    \/ \E i \in Inst, type \in EventTypes, m \in MallocChoices \ {0} :
          edmSeq[i] < MaxIsoEvents /\ SerialEdmPartial(i, type, 0, m)
    \/ SpsBegin(TRUE)
    \/ SpsEnd
    \/ \E i \in Inst : connCb[i] # 0 /\ SetDataAvailableCallback(i, 1, 1, TRUE, FALSE)
    \/ \E i \in Inst : DataEvent(i, 0, 1)
    \/ \E i \in Inst : 0 \in link[i] /\ Receive(i, 0, 1)
    \/ DataEventTask

SpecIso == Init /\ [][NextIso]_vars

\* The nodes the registry holds for one instance, in their order.
RECURSIVE NodesOf(_, _)
NodesOf(pInstance, list) ==
    IF list = <<>> THEN <<>>
    ELSE IF Head(list).pInstance = pInstance
         THEN <<Head(list)>> \o NodesOf(pInstance, Tail(list))
         ELSE NodesOf(pInstance, Tail(list))

\* The step is one of instance A: a partial of one of its events, the start
\* or the end of the dispatch of one of them (create, delete), a push to or
\* a read from one of its channels.
StepOf(A) ==
    \/ atSeq'[A] # atSeq[A]
    \/ edmSeq'[A] # edmSeq[A]
    \/ cur = 0 /\ cur' # 0 /\ cbEv'.inst = A
    \/ cur # 0 /\ cur' = 0 /\ cbEv.inst = A
    \/ last'.op \in {"data", "recv"} /\ last'.inst = A

\* C25: a step of instance A leaves the pending slot of every other instance
\* B as it was, and leaves the channels the registry holds for B as they
\* were: the same nodes in the same order with the same buffered bytes.
C25Claim ==
    [][\A A \in Inst : \A B \in Inst \ {A} :
          StepOf(A) => /\ pending'[B] = pending[B]
                       /\ NodesOf(B, chanList') = NodesOf(B, chanList)]_vars

\* Both instances hold channel 0, instance 2 has a partial pending and bytes
\* buffered, and instance 1 has just read from its channel 0.
C25Witness ==
    /\ last.op = "recv" /\ last.inst = 1 /\ last.ch = 0 /\ last.ret = 1
    /\ NodeOf(1, 0, chanList) # 0 /\ NodeOf(2, 0, chanList) # 0
    /\ chanList[NodeOf(2, 0, chanList)].rx # <<>>
    /\ pending[2] # 0

====
